---- MODULE Spec2Model ----
(***************************************************************************)
(* Model of src/app.py: the data engine get_macro_data (FRED loop, Yahoo   *)
(* loop, derived metrics) followed by the page rendering that consumes the *)
(* returned mapping.                                                       *)
(*                                                                         *)
(* A series is a sequence of rows [t |-> day, v |-> value], days strictly  *)
(* increasing.  A value is a float, modelled as an exact fraction          *)
(* [n |-> numerator, d |-> denominator]; d = 0 encodes the IEEE specials:  *)
(* 0/0 is NaN, 1/0 is +inf and -1/0 is -inf.                               *)
(***************************************************************************)
EXTENDS Integers, Sequences, FiniteSets, TLC

VARIABLES
    env,         \* the upstream conditions of the run (see FredResponses, YahooResponses)
    pc,          \* the block of the script in execution; "raised" when get_macro_data
                 \* lets an exception out, "crashed" when the rendering does
    i,           \* the iteration of the running loop, or the rendering line
    data_store,  \* the mapping built and returned by get_macro_data
    settled,     \* the keys whose fetch has ended, with a frame or with an exception
    ok,          \* the keys whose fetch ended with a frame that has rows
    received,    \* the rows received for the keys of ok
    card_log     \* the outcome of each rendering line executed so far

vars == <<env, pc, i, data_store, settled, ok, received, card_log>>

(***************************************************************************)
(* Bounds of the model.                                                    *)
(***************************************************************************)
\* closing prices and reported levels are drawn from 1..MaxVal
MaxVal == 2
\* calendar of the two quote feeds of the ratio environment: days 0..RatioDays-1
RatioDays == 3
\* calendar of the three balance-sheet feeds of the liquidity environment
LiqDays == 3
\* calendar of the single statistical feed of the resample environment
ResampleDays == 8
\* longest quote history of the quotes environment
QuoteLen == 8

(***************************************************************************)
(* Program constants.                                                      *)
(***************************************************************************)
\* interpolate(method='time', limit=5)
InterpolateLimit == 5
\* series.tail(90)
TailWindow == 90

(***************************************************************************)
(* Float arithmetic on exact fractions.                                    *)
(***************************************************************************)
Abs(x) == IF x < 0 THEN -x ELSE x

RECURSIVE GCD(_, _)
GCD(a, b) == IF b = 0 THEN a ELSE GCD(b, a % b)

Sign(x) == IF x < 0 THEN -1 ELSE IF x > 0 THEN 1 ELSE 0

\* the canonical form of n/d: lowest terms, d > 0; x/0 keeps only its sign
Frac(n, d) ==
    IF d = 0 THEN [n |-> Sign(n), d |-> 0]
    ELSE LET g == GCD(Abs(n), Abs(d))
             s == IF d < 0 THEN -1 ELSE 1
         IN  [n |-> (s * n) \div g, d |-> (s * d) \div g]

Num(k) == [n |-> k, d |-> 1]

NaN == [n |-> 0, d |-> 0]

IsNaN(x) == x.d = 0 /\ x.n = 0

\* float subtraction; the inputs of the program's subtractions are finite or NaN
FSub(x, y) ==
    IF x.d = 0 \/ y.d = 0 THEN NaN
    ELSE Frac(x.n * y.d - y.n * x.d, x.d * y.d)

\* float division: x/0 is +-inf, 0/0 is NaN, no exception (numpy semantics)
FDiv(x, y) ==
    IF IsNaN(x) \/ IsNaN(y) THEN NaN
    ELSE IF x.d = 0 /\ y.d = 0 THEN NaN
    ELSE IF x.d = 0 THEN [n |-> x.n * (IF Sign(y.n) < 0 THEN -1 ELSE 1), d |-> 0]
    ELSE IF y.d = 0 THEN Num(0)
    ELSE Frac(x.n * y.d, x.d * y.n)

\* the value k days after x on the straight line that reaches y after g days
Lerp(x, y, k, g) == Frac(x.n * y.d * g + (y.n * x.d - x.n * y.d) * k, x.d * y.d * g)

(***************************************************************************)
(* pandas Series / Index operations used by the program.                   *)
(***************************************************************************)
Index(s) == [k \in 1..Len(s) |-> s[k].t]

IndexSet(s) == {s[k].t : k \in 1..Len(s)}

At(s, t) == s[CHOOSE k \in 1..Len(s) : s[k].t = t].v

IsNotNaNRow(r) == ~IsNaN(r.v)

\* Series.dropna()
dropna(s) == SelectSeq(s, IsNotNaNRow)

\* the elements of a finite set of days in ascending order
SortedSeq(S) ==
    [k \in 1..Cardinality(S) |-> CHOOSE x \in S : Cardinality({y \in S : y < x}) = k - 1]

\* Series.resample('D') upsampled: one row per day from the first to the last
\* day of the series, NaN on the days the series has no row for
resample_D(s) ==
    IF Len(s) = 0 THEN <<>>
    ELSE LET first == s[1].t
             last  == s[Len(s)].t
         IN  [k \in 1..(last - first + 1) |->
                 LET t == first + k - 1
                 IN  [t |-> t, v |-> IF t \in IndexSet(s) THEN At(s, t) ELSE NaN]]

\* Series.interpolate(method='time', limit=limit), limit_direction 'forward':
\* a NaN is filled when at most limit NaNs separate it from the last valid row
\* before it (itself included); NaNs before the first valid row stay; NaNs after
\* the last valid row repeat the last valid value
interpolate_time(s, limit) ==
    [k \in 1..Len(s) |->
        IF ~IsNaN(s[k].v) THEN s[k]
        ELSE LET before == {j \in 1..(k - 1) : ~IsNaN(s[j].v)}
                 after  == {j \in (k + 1)..Len(s) : ~IsNaN(s[j].v)}
             IN  IF before = {} THEN s[k]
                 ELSE LET p == CHOOSE j \in before : \A j2 \in before : j2 <= j
                      IN  IF k - p > limit THEN s[k]
                          ELSE IF after = {} THEN [t |-> s[k].t, v |-> s[p].v]
                          ELSE LET q == CHOOSE j \in after : \A j2 \in after : j <= j2
                               IN  [t |-> s[k].t,
                                    v |-> Lerp(s[p].v, s[q].v,
                                               s[k].t - s[p].t, s[q].t - s[p].t)]]

\* df.iloc[:, 0].resample('D').interpolate(method='time', limit=5).dropna()
ResampleDaily(rows) == dropna(interpolate_time(resample_D(rows), InterpolateLimit))

\* Index.intersection of two sorted unique indexes: the labels of a also in b
IndexIntersection(a, b) ==
    LET inB(t) == \E k \in 1..Len(b) : b[k] = t
    IN  SelectSeq(a, inB)

\* Series.loc[c]: the rows of s at the labels c, in the order of c
Loc(s, c) == [k \in 1..Len(c) |-> [t |-> c[k], v |-> At(s, c[k])]]

\* the index two Series are aligned on by a binary operator: the sorted union
AlignedIndex(a, b) == SortedSeq(IndexSet(a) \cup IndexSet(b))

InBoth(a, b, t) == t \in IndexSet(a) /\ t \in IndexSet(b)

\* Series - Series: NaN at every label one of the two lacks
SeriesSub(a, b) ==
    LET idx == AlignedIndex(a, b)
    IN  [k \in 1..Len(idx) |->
            [t |-> idx[k],
             v |-> IF InBoth(a, b, idx[k])
                   THEN FSub(At(a, idx[k]), At(b, idx[k])) ELSE NaN]]

\* faulty variant: the operands of the division exchanged
SeriesDivSwapped(a, b) ==
    LET idx == AlignedIndex(a, b)
    IN  [k \in 1..Len(idx) |->
            [t |-> idx[k],
             v |-> IF InBoth(a, b, idx[k])
                   THEN FDiv(At(b, idx[k]), At(a, idx[k])) ELSE NaN]]

\* Series / Series: NaN at every label one of the two lacks
SeriesDiv(a, b) ==
    LET idx == AlignedIndex(a, b)
    IN  [k \in 1..Len(idx) |->
            [t |-> idx[k],
             v |-> IF InBoth(a, b, idx[k])
                   THEN FDiv(At(a, idx[k]), At(b, idx[k])) ELSE NaN]]

\* Series.tail(n)
tail(s, n) == IF Len(s) <= n THEN s ELSE SubSeq(s, Len(s) - n + 1, Len(s))

\* key in data_store
Has(store, key) == key \in DOMAIN store

\* data_store[key] = series
Put(store, key, series) ==
    [k \in (DOMAIN store) \cup {key} |-> IF k = key THEN series ELSE store[k]]

(***************************************************************************)
(* The configuration tables of get_macro_data, in dict order.              *)
(***************************************************************************)
fred_codes ==
    << [code |-> "WALCL",     name |-> "Fed_BS"],
       [code |-> "WTREGEN",   name |-> "TGA"],
       [code |-> "RRPONTSYD", name |-> "ON_RRP"],
       [code |-> "WRESBAL",   name |-> "Reserves"],
       [code |-> "WSHOMCB",   name |-> "Fed_Treasury"],
       [code |-> "WSHMBS",    name |-> "Fed_MBS"],
       [code |-> "SOFR",      name |-> "SOFR"],
       [code |-> "DFF",       name |-> "Fed_Funds"],
       [code |-> "T10Y2Y",    name |-> "Yield_Curve"] >>

tickers ==
    << [key |-> "Gold",   symbol |-> "GC=F"],
       [key |-> "Oil",    symbol |-> "CL=F"],
       [key |-> "Copper", symbol |-> "HG=F"],
       [key |-> "DXY",    symbol |-> "DX-Y.NYB"],
       [key |-> "CNH",    symbol |-> "CNY=X"],
       [key |-> "US10Y",  symbol |-> "^TNX"],
       [key |-> "A50_HK", symbol |-> "2823.HK"] >>

FredKeys == {fred_codes[k].name : k \in 1..Len(fred_codes)}

TickerKeys == {tickers[k].key : k \in 1..Len(tickers)}

FetchKeys == FredKeys \cup TickerKeys

GoldOilInputs == {"Gold", "Oil"}

NetLiquidityInputs == {"Fed_BS", "TGA", "ON_RRP"}

(***************************************************************************)
(* What the two upstream services may answer.  A response is an error (any *)
(* exception of the call: network, HTTP, parse) or a frame of rows.  The   *)
(* variable env names the upstream conditions of the run.                  *)
(***************************************************************************)
Error == [kind |-> "error", rows |-> <<>>]

Frame(rows) == [kind |-> "frame", rows |-> rows]

\* every frame with a row on some of the days, each value drawn from vals
FramesOver(days, vals) ==
    UNION {{[k \in 1..Cardinality(D) |->
                 [t |-> SortedSeq(D)[k], v |-> f[SortedSeq(D)[k]]]] : f \in [D -> vals]}
           : D \in SUBSET days}

\* every frame with a row on each of the days 0..n-1, 1 <= n <= maxLen
HistoriesUpTo(maxLen, vals) ==
    UNION {{[k \in 1..n |-> [t |-> k - 1, v |-> f[k]]] : f \in [1..n -> vals]}
           : n \in 1..maxLen}

Levels == {Num(x) : x \in 1..MaxVal}

\* a statistical series reported on days 0 and 2, a quote series on days 0, 1, 2
NominalCsv == << [t |-> 0, v |-> Num(1)], [t |-> 2, v |-> Num(2)] >>

NominalBars == << [t |-> 0, v |-> Num(2)], [t |-> 1, v |-> Num(1)], [t |-> 2, v |-> Num(1)] >>

\* pd.read_csv(url, index_col=0, parse_dates=True) for the series of a code; a
\* body without rows or with a column that is not numeric makes a later call of
\* the same try body raise, and counts among the errors
FredResponses(e, name) ==
    {Error} \cup
    CASE e = "outage" -> {Frame(NominalCsv)}
      [] e = "liquidity" /\ name = "Fed_BS" ->
            {Frame(r) : r \in FramesOver(0..(LiqDays - 1), {Num(MaxVal)}) \ {<<>>}}
      [] e = "liquidity" /\ name \in {"TGA", "ON_RRP"} ->
            {Frame(r) : r \in FramesOver(0..(LiqDays - 1), {Num(1)}) \ {<<>>}}
      [] e = "resample" /\ name = "Yield_Curve" ->
            {Frame(r) : r \in {f \in FramesOver(0..(ResampleDays - 1), Levels) :
                                   Len(f) > 0 /\ f[1].t = 0}}
      [] OTHER -> {}

\* yf.download(symbol, period="1y", progress=False, threads=False): the Close
\* column of the one ticker, which both branches of line 80 select
YahooResponses(e, key) ==
    {Error} \cup
    CASE e = "outage" -> {Frame(<<>>), Frame(NominalBars)}
      [] e = "ratio" /\ key \in {"Gold", "Oil"} ->
            {Frame(r) : r \in FramesOver(0..(RatioDays - 1), Levels)}
      [] e = "quotes" /\ key = "A50_HK" ->
            {Frame(<<>>)} \cup {Frame(r) : r \in HistoriesUpTo(QuoteLen, Levels \cup {NaN})}
      [] OTHER -> {}

(***************************************************************************)
(* get_macro_data.                                                         *)
(***************************************************************************)
\* the body of the try of the FRED loop: read_csv raises, or the resampled
\* series is stored under the name
FredTry(store, name, resp) ==
    IF resp.kind = "error" THEN [exc |-> "Exception", store |-> store]
    ELSE [exc |-> "none", store |-> Put(store, name, ResampleDaily(resp.rows))]

\* the body of the try of the Yahoo loop: download raises, or a non-empty frame
\* has its Close column stored without its NaN rows
YahooTry(store, key, resp) ==
    IF resp.kind = "error" THEN [exc |-> "Exception", store |-> store]
    ELSE IF Len(resp.rows) # 0
         THEN [exc |-> "none", store |-> Put(store, key, dropna(resp.rows))]
         ELSE [exc |-> "none", store |-> store]

\* faulty variant: the handler lets the exception through
ExceptReraise(r) == r

\* except: pass
ExceptPass(r) == [exc |-> "none", store |-> r.store]

\* faulty variant: the derived metrics computed before the Yahoo loop
NextStageDerivedFirst(stage) ==
    CASE stage = "fred" -> "gold_oil"
      [] stage = "gold_oil" -> "net_liq"
      [] stage = "net_liq" -> "yahoo"
      [] stage = "yahoo" -> "return"
      [] stage = "return" -> "render"
      [] stage = "render" -> "done"

\* the order of the blocks of the script
NextStage(stage) ==
    CASE stage = "fred" -> "yahoo"
      [] stage = "yahoo" -> "gold_oil"
      [] stage = "gold_oil" -> "net_liq"
      [] stage = "net_liq" -> "return"
      [] stage = "return" -> "render"
      [] stage = "render" -> "done"

\* faulty variant: the division without the restriction to the common index
GoldOilRatioUnaligned(gold, oil) == SeriesDiv(gold, oil)

\* Gold_Oil: both series restricted to the intersection of their indexes, divided
GoldOilRatio(gold, oil) ==
    LET c == IndexIntersection(Index(gold), Index(oil))
    IN  SeriesDiv(Loc(gold, c), Loc(oil, c))

\* Net_Liquidity: two chained Series subtractions
NetLiquidity(fed_bs, tga, on_rrp) == SeriesSub(SeriesSub(fed_bs, tga), on_rrp)

\* faulty variant: the guard tests Gold only and a missing Oil counts as an empty series
GoldOilStepGoldOnly(store) ==
    IF Has(store, "Gold")
    THEN Put(store, "Gold_Oil",
             GoldOilRatio(store["Gold"], IF Has(store, "Oil") THEN store["Oil"] ELSE <<>>))
    ELSE store

\* if 'Gold' in data_store and 'Oil' in data_store: ...
GoldOilStep(store) ==
    IF Has(store, "Gold") /\ Has(store, "Oil")
    THEN Put(store, "Gold_Oil", GoldOilRatio(store["Gold"], store["Oil"]))
    ELSE store

\* if all(k in data_store for k in ['Fed_BS', 'TGA', 'ON_RRP']): ...
NetLiquidityStep(store) ==
    IF \A k \in {"Fed_BS", "TGA", "ON_RRP"} : Has(store, k)
    THEN Put(store, "Net_Liquidity",
             NetLiquidity(store["Fed_BS"], store["TGA"], store["ON_RRP"]))
    ELSE store

\* leaving iteration k of a loop over table: the next iteration, or the next block
Advance(stage, k, table) ==
    IF k < Len(table) THEN [pc |-> stage, i |-> k + 1]
    ELSE [pc |-> NextStage(stage), i |-> 1]

\* one iteration of: for code, name in fred_codes.items()
FetchFred ==
    /\ pc = "fred"
    /\ \E resp \in FredResponses(env, fred_codes[i].name) :
          LET name == fred_codes[i].name
              r    == ExceptPass(FredTry(data_store, name, resp))
              to   == Advance("fred", i, fred_codes)
          IN  /\ data_store' = r.store
              /\ settled' = settled \cup {name}
              /\ ok' = IF resp.kind = "frame" THEN ok \cup {name} ELSE ok
              /\ received' = IF resp.kind = "frame"
                             THEN Put(received, name, resp.rows) ELSE received
              /\ pc' = IF r.exc = "none" THEN to.pc ELSE "raised"
              /\ i' = IF r.exc = "none" THEN to.i ELSE i
    /\ UNCHANGED <<env, card_log>>

\* one iteration of: for key, symbol in tickers.items()
FetchYahoo ==
    /\ pc = "yahoo"
    /\ \E resp \in YahooResponses(env, tickers[i].key) :
          LET key == tickers[i].key
              r   == ExceptPass(YahooTry(data_store, key, resp))
              to  == Advance("yahoo", i, tickers)
          IN  /\ data_store' = r.store
              /\ settled' = settled \cup {key}
              /\ ok' = IF resp.kind = "frame" /\ Len(resp.rows) # 0
                       THEN ok \cup {key} ELSE ok
              /\ received' = IF resp.kind = "frame" /\ Len(resp.rows) # 0
                             THEN Put(received, key, resp.rows) ELSE received
              /\ pc' = IF r.exc = "none" THEN to.pc ELSE "raised"
              /\ i' = IF r.exc = "none" THEN to.i ELSE i
    /\ UNCHANGED <<env, card_log>>

\* the Gold_Oil block
ComputeGoldOil ==
    /\ pc = "gold_oil"
    /\ data_store' = GoldOilStep(data_store)
    /\ pc' = NextStage("gold_oil")
    /\ UNCHANGED <<env, i, settled, ok, received, card_log>>

\* the Net_Liquidity block
ComputeNetLiquidity ==
    /\ pc = "net_liq"
    /\ data_store' = NetLiquidityStep(data_store)
    /\ pc' = NextStage("net_liq")
    /\ UNCHANGED <<env, i, settled, ok, received, card_log>>

\* status.update(...); return data_store; data = get_macro_data()
Return ==
    /\ pc = "return"
    /\ pc' = NextStage("return")
    /\ i' = 1
    /\ UNCHANGED <<env, data_store, settled, ok, received, card_log>>

(***************************************************************************)
(* Page rendering.                                                         *)
(***************************************************************************)
\* the reads of the mapping in script order: four overview metrics, then the cards
render_steps ==
    << [kind |-> "metric", key |-> "Gold"],
       [kind |-> "metric", key |-> "DXY"],
       [kind |-> "metric", key |-> "CNH"],
       [kind |-> "metric", key |-> "Fed_BS"],
       [kind |-> "card", key |-> "Net_Liquidity"],
       [kind |-> "card", key |-> "Fed_BS"],
       [kind |-> "card", key |-> "Fed_Treasury"],
       [kind |-> "card", key |-> "Fed_MBS"],
       [kind |-> "card", key |-> "Reserves"],
       [kind |-> "card", key |-> "TGA"],
       [kind |-> "card", key |-> "ON_RRP"],
       [kind |-> "card", key |-> "Gold"],
       [kind |-> "card", key |-> "Gold_Oil"],
       [kind |-> "card", key |-> "US10Y"],
       [kind |-> "card", key |-> "CNH"],
       [kind |-> "card", key |-> "DXY"],
       [kind |-> "card", key |-> "A50_HK"] >>

None == [some |-> FALSE, val |-> <<>>]

\* data.get(key)
Get(store, key) == IF Has(store, key) THEN [some |-> TRUE, val |-> store[key]] ELSE None

\* series.iloc[-1] and series.iloc[-2]: IndexError when out of bounds
LastTwo(series) == IF Len(series) >= 2 THEN "read" ELSE "IndexError"

\* faulty variant: the metric line without its "if key in data" guard
OverviewMetricUnguarded(store, key) ==
    IF Has(store, key)
    THEN (IF LastTwo(store[key]) = "read" THEN "shown" ELSE "IndexError")
    ELSE "KeyError"

\* if key in data: cN.metric(..., data[key].iloc[-1], data[key].iloc[-2] ...)
OverviewMetric(store, key) ==
    IF Has(store, key)
    THEN (IF LastTwo(store[key]) = "read" THEN "shown" ELSE "IndexError")
    ELSE "skipped"

\* plot_full_card(series, ...)
plot_full_card(series) ==
    IF ~series.some \/ Len(series.val) = 0 THEN "skipped"
    ELSE IF LastTwo(tail(series.val, TailWindow)) = "read" THEN "shown"
    ELSE "IndexError"

\* one overview metric line of the script
RenderMetric ==
    /\ pc = "render"
    /\ render_steps[i].kind = "metric"
    /\ LET result == OverviewMetric(data_store, render_steps[i].key)
           to     == Advance("render", i, render_steps)
       IN  /\ card_log' = Append(card_log, result)
           /\ pc' = IF result \in {"shown", "skipped"} THEN to.pc ELSE "crashed"
           /\ i' = IF result \in {"shown", "skipped"} THEN to.i ELSE i
    /\ UNCHANGED <<env, data_store, settled, ok, received>>

\* one plot_full_card(data.get(key), ...) line of the script
RenderCard ==
    /\ pc = "render"
    /\ render_steps[i].kind = "card"
    /\ LET result == plot_full_card(Get(data_store, render_steps[i].key))
           to     == Advance("render", i, render_steps)
       IN  /\ card_log' = Append(card_log, result)
           /\ pc' = IF result \in {"shown", "skipped"} THEN to.pc ELSE "crashed"
           /\ i' = IF result \in {"shown", "skipped"} THEN to.i ELSE i
    /\ UNCHANGED <<env, data_store, settled, ok, received>>

(***************************************************************************)
(* Specifications: one run of the script under each upstream condition.    *)
(***************************************************************************)
Start(e) ==
    /\ env = e
    /\ pc = "fred"
    /\ i = 1
    /\ data_store = <<>>
    /\ settled = {}
    /\ ok = {}
    /\ received = <<>>
    /\ card_log = <<>>

Next ==
    \/ FetchFred
    \/ FetchYahoo
    \/ ComputeGoldOil
    \/ ComputeNetLiquidity
    \/ Return
    \/ RenderMetric
    \/ RenderCard

\* every feed either fails or delivers its nominal frame
Init == Start("outage")

Spec == Init /\ [][Next]_vars

\* only the three balance-sheet feeds answer, on any calendar of LiqDays days
InitLiquidity == Start("liquidity")

SpecLiquidity == InitLiquidity /\ [][Next]_vars

\* only the Gold and Oil feeds answer, on any calendar of RatioDays days
InitRatio == Start("ratio")

SpecRatio == InitRatio /\ [][Next]_vars

\* only one statistical feed answers, with any reporting gaps in ResampleDays days
InitResample == Start("resample")

SpecResample == InitResample /\ [][Next]_vars

\* only one quote feed answers, with any history of up to QuoteLen days
InitQuotes == Start("quotes")

SpecQuotes == InitQuotes /\ [][Next]_vars

(***************************************************************************)
(* Properties.                                                             *)
(***************************************************************************)
Acquiring == {"fred", "yahoo", "gold_oil", "net_liq", "return"}

DerivedStages == {"gold_oil", "net_liq"}

\* the blocks that run once the last derived metric is in the mapping
AfterDerived == {"return", "render", "done", "crashed"}

Disjoint(a, b) == IndexSet(a) \cap IndexSet(b) = {}

\* C1: whatever subset of the 9 + 7 fetches fails, get_macro_data raises nothing
\* and stays on its way to its return (each loop on an entry of its table, which
\* always has a response to take); the fetched keys of the mapping are exactly the keys
\* whose fetch delivered rows; and a derived metric whose inputs were all
\* delivered is in the returned mapping.
C1_FetchFailuresIsolated ==
    /\ pc # "raised"
    /\ pc \in Acquiring \cup {"render", "done", "crashed"}
    /\ pc = "fred" => i \in 1..Len(fred_codes)
    /\ pc = "yahoo" => i \in 1..Len(tickers)
    /\ (DOMAIN data_store) \cap FetchKeys = ok
    /\ pc \in AfterDerived =>
          /\ GoldOilInputs \subseteq ok => Has(data_store, "Gold_Oil")
          /\ NetLiquidityInputs \subseteq ok => Has(data_store, "Net_Liquidity")

\* a returned mapping of a run where some fetches failed, others delivered, and
\* the ratio, whose inputs were delivered, was computed though TGA failed
C1_Witness ==
    /\ pc = "render"
    /\ GoldOilInputs \subseteq ok
    /\ "TGA" \notin ok
    /\ "Fed_BS" \in ok
    /\ "Copper" \notin ok
    /\ Has(data_store, "Gold_Oil")
    /\ ~Has(data_store, "Net_Liquidity")

\* C2: a derived key is in the mapping only with all of its inputs: Gold_Oil
\* with Gold and Oil, Net_Liquidity with Fed_BS, TGA and ON_RRP.
C2_DerivedOnlyFromFullInputs ==
    /\ Has(data_store, "Gold_Oil") => \A k \in GoldOilInputs : Has(data_store, k)
    /\ Has(data_store, "Net_Liquidity") =>
          \A k \in NetLiquidityInputs : Has(data_store, k)

\* a returned mapping with Net_Liquidity, and with Gold but neither Oil nor Gold_Oil
C2_Witness ==
    /\ pc = "render"
    /\ Has(data_store, "Net_Liquidity")
    /\ Has(data_store, "Gold")
    /\ ~Has(data_store, "Oil")
    /\ ~Has(data_store, "Gold_Oil")

\* C3: Net_Liquidity has a point at t exactly when t is in the index of Fed_BS,
\* of TGA and of ON_RRP, and none of its points is undefined.
C3_NetLiquidityOnIntersection ==
    (pc \in AfterDerived /\ Has(data_store, "Net_Liquidity")) =>
        LET nl == data_store["Net_Liquidity"]
        IN  /\ IndexSet(nl) = IndexSet(data_store["Fed_BS"])
                                \cap IndexSet(data_store["TGA"])
                                \cap IndexSet(data_store["ON_RRP"])
            /\ \A k \in 1..Len(nl) : ~IsNaN(nl[k].v)

\* C4 as claimed: with Gold and Oil both fetched on disjoint indexes, the key
\* Gold_Oil is absent from the returned mapping.
C4_DisjointRatioAbsent ==
    (/\ pc \in AfterDerived
     /\ Has(data_store, "Gold") /\ Has(data_store, "Oil")
     /\ Disjoint(data_store["Gold"], data_store["Oil"]))
    => ~Has(data_store, "Gold_Oil")

\* the rendering line of the card of a key
CardLine(key) ==
    CHOOSE k \in 1..Len(render_steps) :
        render_steps[k].kind = "card" /\ render_steps[k].key = key

\* C4 as amended: with Gold and Oil both fetched on disjoint indexes, the run does
\* not fail, Gold_Oil is in the returned mapping as a series of zero points, and
\* the rendering skips its card.
C4_DisjointRatioEmpty ==
    /\ pc # "raised"
    /\ (/\ pc \in AfterDerived
        /\ Has(data_store, "Gold") /\ Has(data_store, "Oil")
        /\ Disjoint(data_store["Gold"], data_store["Oil"]))
       => /\ Has(data_store, "Gold_Oil")
          /\ Len(data_store["Gold_Oil"]) = 0
          /\ Len(card_log) >= CardLine("Gold_Oil") =>
                 card_log[CardLine("Gold_Oil")] = "skipped"

\* Gold and Oil returned with points, on disjoint days, an empty Gold_Oil, and
\* the page rendered to its end
C4_Witness ==
    /\ pc = "done"
    /\ Has(data_store, "Gold") /\ Has(data_store, "Oil")
    /\ Len(data_store["Gold"]) > 0 /\ Len(data_store["Oil"]) > 0
    /\ Disjoint(data_store["Gold"], data_store["Oil"])
    /\ Has(data_store, "Gold_Oil")
    /\ Len(data_store["Gold_Oil"]) = 0

\* the days strictly between two consecutive reported days that enclose day t
GapAround(rows, t) ==
    LET p == CHOOSE k \in 1..(Len(rows) - 1) : rows[k].t < t /\ t < rows[k + 1].t
    IN  rows[p + 1].t - rows[p].t - 1

\* C5: the stored statistical series keeps every reported value at its day, and
\* has a point on an unreported day only inside a gap of at most 5 missing days.
C5_ResampleWithinGapLimit ==
    \A name \in FredKeys \cap DOMAIN received :
        LET rows == received[name]
            out  == data_store[name]
        IN  /\ \A k \in 1..Len(rows) :
                   rows[k].t \in IndexSet(out) /\ At(out, rows[k].t) = rows[k].v
            /\ \A k \in 1..Len(out) :
                   out[k].t \notin IndexSet(rows) =>
                       GapAround(rows, out[k].t) <= InterpolateLimit

\* the stale-tail rule: a series whose last n points are equal ends at the most
\* recent earlier point of another value, when there is one
StaleTailTruncated(s, n) ==
    IF Len(s) < n THEN s
    ELSE LET flat    == s[Len(s)].v
             isFlat  == \A k \in (Len(s) - n + 1)..Len(s) : s[k].v = flat
             differs == {k \in 1..Len(s) : s[k].v # flat}
         IN  IF isFlat /\ differs # {}
             THEN SubSeq(s, 1, CHOOSE k \in differs : \A k2 \in differs : k2 <= k)
             ELSE s

\* C6: the quote series stored in the mapping is the received Close series cut
\* at the most recent differing point when its final 5 points are all equal, and
\* the received Close series as it is otherwise.
C6_StaleTailTruncated ==
    \A key \in TickerKeys \cap DOMAIN received :
        data_store[key] = StaleTailTruncated(dropna(received[key]), 5)

\* a step that neither adds, removes nor changes a fetched series of the mapping
FetchedSeriesUnchanged ==
    \A k \in FetchKeys :
        /\ Has(data_store', k) <=> Has(data_store, k)
        /\ Has(data_store, k) => data_store'[k] = data_store[k]

\* C7: the derived metrics start only when every fetch has settled, and from then
\* on no step changes a fetched series of the mapping.
C7_DerivedAfterAllFetches ==
    /\ [](pc \in DerivedStages => settled = FetchKeys)
    /\ [][(pc \in DerivedStages \cup AfterDerived) => FetchedSeriesUnchanged]_vars

\* the first derived metric about to start after fetches that partly failed
C7_Witness ==
    /\ pc = "gold_oil"
    /\ settled = FetchKeys
    /\ ok # FetchKeys
    /\ "A50_HK" \in ok

\* C8: Gold_Oil has a point at t exactly when Gold and Oil both have one, its
\* value there is Gold[t] / Oil[t], and intersecting the two indexes in the other
\* order gives the same set of timestamps.
C8_RatioOnIntersection ==
    (pc \in {"net_liq"} \cup AfterDerived /\ Has(data_store, "Gold_Oil")) =>
        LET gold  == data_store["Gold"]
            oil   == data_store["Oil"]
            ratio == data_store["Gold_Oil"]
            ab    == IndexIntersection(Index(gold), Index(oil))
            ba    == IndexIntersection(Index(oil), Index(gold))
        IN  /\ IndexSet(ratio) = IndexSet(gold) \cap IndexSet(oil)
            /\ Len(ratio) = Cardinality(IndexSet(ratio))
            /\ \A k \in 1..Len(ratio) :
                   LET g == At(gold, ratio[k].t)
                       o == At(oil, ratio[k].t)
                       r == ratio[k].v
                   IN  r.d # 0 /\ r.n * o.n * g.d = g.n * o.d * r.d
            /\ {ab[k] : k \in 1..Len(ab)} = {ba[k] : k \in 1..Len(ba)}

\* a ratio over two common days of inputs on different calendars, with a value
\* that is not a whole number
C8_Witness ==
    /\ pc = "return"
    /\ Has(data_store, "Gold_Oil")
    /\ Len(data_store["Gold_Oil"]) = 2
    /\ IndexSet(data_store["Gold"]) # IndexSet(data_store["Oil"])
    /\ \E k \in 1..Len(data_store["Gold_Oil"]) : data_store["Gold_Oil"][k].v.d # 1

\* C9: every rendering line whose key is absent from the mapping is skipped, the
\* rendering goes on to the next line, and it never stops at an absent key.
C9_AbsentKeysSkipped ==
    /\ \A k \in 1..Len(card_log) :
           ~Has(data_store, render_steps[k].key) => card_log[k] = "skipped"
    /\ pc = "render" => Len(card_log) = i - 1
    /\ pc = "done" => Len(card_log) = Len(render_steps)
    /\ pc = "crashed" => Has(data_store, render_steps[Len(card_log)].key)

\* a page rendered to its end from a mapping without Gold and Net_Liquidity: the
\* first metric and the first card skipped, the last card shown
C9_Witness ==
    /\ pc = "done"
    /\ ~Has(data_store, "Gold")
    /\ ~Has(data_store, "Net_Liquidity")
    /\ card_log[1] = "skipped"
    /\ card_log[5] = "skipped"
    /\ card_log[Len(render_steps)] = "shown"

\* C10: a rendering line that reads the last and the second-to-last value (a
\* metric of a present key, a card of a non-empty series) finds two points.
C10_SecondToLastExists ==
    pc = "render" =>
        LET step   == render_steps[i]
            series == Get(data_store, step.key)
            reads  == IF step.kind = "metric" THEN series.some
                      ELSE series.some /\ Len(series.val) > 0
        IN  reads => Len(series.val) >= 2

====
